---- MODULE Spec2Model ----
(***************************************************************************)
(* State-machine model of the stream-nexus broadcast hub (ChatServer), its *)
(* persistent store (Database), the layout store (LayoutManager), the      *)
(* currency normalizer (ExchangeRates) and the websocket session           *)
(* (ChatClient).  One action per actix handler; each action is the whole   *)
(* handler.                                                                *)
(***************************************************************************)
EXTENDS Integers, Sequences, FiniteSets, TLC

(***************************************************************************)
(* Bounds of the model.                                                    *)
(***************************************************************************)
\* session actors (websocket connections) that ever exist: 1..MaxSessions
MaxSessions == 2
\* connection identifiers: rand::random::<usize>() draws from 0..MaxConnId
MaxConnId == 1
\* message identifiers (Uuid): 1..MaxMsgId
MaxMsgId == 2
\* how many hours the wall clock advances after the hub was built
MaxTicks == 1
\* the capacity of the hub's mailbox (256 in the program)
MailboxCapacity == 2
\* the cap of RecentMessages (MAX_MESSAGES is 100 in the program)
MAX_MESSAGES == 2
\* viewer counts reported by a platform: 0..MaxViewers
MaxViewers == 1
\* Reply messages handed to one session
MaxReplies == 2
\* the token keys drawn for emojis
MaxKey == 2

(***************************************************************************)
(* Program constants.                                                      *)
(***************************************************************************)
\* ChatServer::new: database.cleanup_old_messages(48)
RETENTION_HOURS == 48
\* ChatServer::new: database.get_paid_messages_since_hours(24)
CACHE_WINDOW_HOURS == 24
\* HEARTBEAT_INTERVAL, in seconds
HEARTBEAT_INTERVAL == 1
\* CLIENT_TIMEOUT, in seconds
CLIENT_TIMEOUT == 5

\* Option<T>: None, or Some(x) whose value is Unwrap
None == <<>>

Some(x) == <<x>>

Unwrap(o) == o[1]

Sessions == 1..MaxSessions
ConnIds == 0..MaxConnId
MsgIds == 1..MaxMsgId

(***************************************************************************)
(* HashMap helpers: a map is a function on the set of its keys.            *)
(***************************************************************************)
EmptyMap == [k \in {} |-> None]

MapInsert(m, k, v) == [x \in (DOMAIN m) \cup {k} |-> IF x = k THEN v ELSE m[x]]

MapRemove(m, k) == [x \in (DOMAIN m) \ {k} |-> m[x]]

MapGet(m, k) == IF k \in DOMAIN m THEN Some(m[k]) ELSE None

MapValues(m) == {m[k] : k \in DOMAIN m}

(***************************************************************************)
(* Currency Normalizer (exchange.rs).  Amounts are in cents; a rate is the *)
(* XYZ->USD factor in percent, so get_usd("EUR", 500) = 540 for 1.08.      *)
(***************************************************************************)
\* ExchangeRates.rates after parse_xml: "USD" maps to 1.0, "ZWL" has no rate
RatesPercent == [c \in {"USD", "EUR"} |-> IF c = "USD" THEN 100 ELSE 108]

Currencies == {"USD", "EUR", "ZWL"}

Amounts == {-100, 0, 500}

get_usd(currency, amount) ==
    IF currency = "USD" THEN amount
    ELSE IF currency \in DOMAIN RatesPercent
         THEN (amount * RatesPercent[currency]) \div 100
         ELSE 0

(***************************************************************************)
(* Text: a string is a sequence of one-character strings.                  *)
(***************************************************************************)
\* str::replace: every non-overlapping match of pat, left to right; an
\* empty pattern matches before every character and at the end.  The text
\* before the leftmost match is copied, the match is replaced, and the
\* search goes on behind it.
RECURSIVE ReplaceAll(_, _, _)
ReplaceAll(s, pat, rep) ==
    IF Len(s) < Len(pat) THEN s
    ELSE IF Len(pat) = 0
    THEN IF Len(s) = 0 THEN rep
         ELSE rep \o <<s[1]>> \o ReplaceAll(Tail(s), pat, rep)
    ELSE LET starts == {i \in 1..(Len(s) - Len(pat) + 1) :
                           SubSeq(s, i, i + Len(pat) - 1) = pat}
         IN  IF starts = {} THEN s
             ELSE LET first == CHOOSE i \in starts : \A j \in starts : i <= j
                  IN  SubSeq(s, 1, first - 1) \o rep
                      \o ReplaceAll(SubSeq(s, first + Len(pat), Len(s)), pat, rep)

\* the five chained replace calls of Handler<Content>::handle
EscapeHtml(s) ==
    LET a == ReplaceAll(s, <<"&">>, <<"&", "a", "m", "p", ";">>)
        b == ReplaceAll(a, <<"\"">>, <<"&", "q", "u", "o", "t">>)
        c == ReplaceAll(b, <<"'">>, <<"&", "#", "0", "3", "9", ";">>)
        d == ReplaceAll(c, <<"<">>, <<"&", "l", "t", ";">>)
    IN  ReplaceAll(d, <<">">>, <<"&", "g", "t", ";">>)

(***************************************************************************)
(* Emoji substitution of Handler<Content>::handle: every find pattern is   *)
(* first replaced by a token "<key>" with a random key, then every token   *)
(* by the emoji's markup, in the iteration order of the HashMap.           *)
(***************************************************************************)
DigitChars == <<"0", "1", "2", "3", "4", "5", "6", "7", "8", "9">>

\* format!("{}", key) of a usize
RECURSIVE Decimal(_)
Decimal(n) ==
    IF n < 10 THEN <<DigitChars[n + 1]>>
    ELSE Decimal(n \div 10) \o <<DigitChars[(n % 10) + 1]>>

\* format!("<{}>", key)
Token(key) == <<"<">> \o Decimal(key) \o <<">">>

ImgOpen ==
    <<"<", "i", "m", "g", " ", "c", "l", "a", "s", "s", "=", "\"", "e",
      "m", "o", "j", "i", "\"", " ", "s", "r", "c", "=", "\"">>

ImgDataEmoji ==
    <<"\"", " ", "d", "a", "t", "a", "-", "e", "m", "o", "j", "i", "=",
      "\"">>

ImgAlt ==
    <<"\"", " ", "a", "l", "t", "=", "\"">>

ImgClose ==
    <<"\"", " ", "/", ">">>

\* the emoji's markup: the url is escaped, the name is inserted as it came
EmojiMarkup(replace, name) ==
    ImgOpen \o EscapeHtml(replace) \o ImgDataEmoji \o name \o ImgAlt \o name \o ImgClose

\* first loop: emojis[i] = <<find, replace, name>>, keys[i] its random key
RECURSIVE Tokenize(_, _, _, _)
Tokenize(s, emojis, keys, i) ==
    IF i > Len(emojis) THEN s
    ELSE Tokenize(ReplaceAll(s, emojis[i][1], Token(keys[i])), emojis, keys, i + 1)

\* replacements: HashMap<usize, String>; a later insert under the same key
\* overwrites the earlier one
Replacements(emojis, keys) ==
    [k \in {keys[i] : i \in 1..Len(emojis)} |->
        LET last == CHOOSE i \in 1..Len(emojis) :
                        /\ keys[i] = k
                        /\ \A j \in 1..Len(emojis) : keys[j] = k => j <= i
        IN  EmojiMarkup(emojis[last][2], emojis[last][3])]

\* second loop, visiting the keys in the sequence order
RECURSIVE Detokenize(_, _, _, _)
Detokenize(s, repl, order, i) ==
    IF i > Len(order) THEN s
    ELSE Detokenize(ReplaceAll(s, Token(order[i]), repl[order[i]]), repl, order, i + 1)

\* the sequences that enumerate set S once each: the orders in which a
\* HashMap with key set S can be iterated
Orders(S) ==
    {o \in [1..Cardinality(S) -> S] : \A k \in S : \E i \in 1..Cardinality(S) : o[i] = k}

SanitizeMessage(message, emojis, keys, order) ==
    Detokenize(Tokenize(EscapeHtml(message), emojis, keys, 1),
               Replacements(emojis, keys), order, 1)

(***************************************************************************)
(* Data model.  A ChatMessage keeps the fields the hub reads or rewrites;  *)
(* platform, sent_at, avatar and the badges are copied through unchanged   *)
(* everywhere and are left out.  Timestamps are in hours, relative to the  *)
(* moment the hub was built (time 0); earlier receipts are negative.       *)
(***************************************************************************)
Message(id, received_at, is_placeholder, message, emojis, username, amount, currency) ==
    [id |-> id, received_at |-> received_at, is_placeholder |-> is_placeholder,
     message |-> message, emojis |-> emojis, username |-> username,
     amount |-> amount, currency |-> currency]

\* the columns upsert_paid_message writes: is_placeholder is not stored
MessageToRow(m) ==
    [id |-> m.id, received_at |-> m.received_at, message |-> m.message,
     emojis |-> m.emojis, username |-> m.username,
     amount |-> m.amount, currency |-> m.currency]

row_to_message(row) ==
    Message(row.id, row.received_at, FALSE, row.message, row.emojis,
            row.username, row.amount, row.currency)

Connection(id, recipient, subscribed_layout) ==
    [id |-> id, recipient |-> recipient, subscribed_layout |-> subscribed_layout]

LayoutNames == {"alt", "default"}

\* LayoutManager::list sorts the names
LayoutNamesSorted == <<"alt", "default">>

\* an absent custom_css or compiled_css
NoCss == "null"

\* a Layout: its name, one element's style.custom_css and style.compiled_css
\* and its position.x
LayoutAt(name, custom_css, compiled_css, x) ==
    [name |-> name, custom_css |-> custom_css, compiled_css |-> compiled_css, x |-> x]

\* a Layout whose element has no position.x
Layout(name, custom_css, compiled_css) == LayoutAt(name, custom_css, compiled_css, None)

\* a Dimension: Px, Vw, Vh, Percent of an f64 v, or Calc of a string s; an
\* f64 is finite with value n, or not (inf)
Dimension(unit, v, s) == [unit |-> unit, v |-> v, s |-> s]

\* Display for f64, for the values 0..9 and inf
FormatF64(v) == IF v.fin THEN <<DigitChars[v.n + 1]>> ELSE <<"i", "n", "f">>

\* str::parse::<f64>, for the same values
ParseF64(str) ==
    IF str = <<"i", "n", "f">> THEN Some([fin |-> FALSE, n |-> 0])
    ELSE IF Len(str) = 1 /\ \E d \in 1..10 : DigitChars[d] = str[1]
    THEN Some([fin |-> TRUE, n |-> (CHOOSE d \in 1..10 : DigitChars[d] = str[1]) - 1])
    ELSE None

\* str::trim: without the spaces at both ends
Trim(str) ==
    LET inked == {i \in 1..Len(str) : str[i] # " "}
    IN  IF inked = {} THEN <<>>
        ELSE SubSeq(str, CHOOSE i \in inked : \A j \in inked : i <= j,
                         CHOOSE i \in inked : \A j \in inked : i >= j)

\* Dimension::to_css
to_css(d) ==
    CASE d.unit = "Calc" -> d.s
      [] d.unit = "Px" -> FormatF64(d.v) \o <<"p", "x">>
      [] d.unit = "Vw" -> FormatF64(d.v) \o <<"v", "w">>
      [] d.unit = "Vh" -> FormatF64(d.v) \o <<"v", "h">>
      [] d.unit = "Percent" -> FormatF64(d.v) \o <<"%">>

\* Dimension::parse of a string `text`: trimmed, then calc( first, then the
\* suffixes vw, vh, %, px in this order, then a bare number as pixels
ParseDimension(text) ==
    LET str == Trim(text)
        StartsWith(prefix) ==
            Len(str) >= Len(prefix) /\ SubSeq(str, 1, Len(prefix)) = prefix
        EndsWith(suffix) ==
            /\ Len(str) >= Len(suffix)
            /\ SubSeq(str, Len(str) - Len(suffix) + 1, Len(str)) = suffix
        Arm(unit, suffix) ==
            LET num == ParseF64(Trim(SubSeq(str, 1, Len(str) - Len(suffix))))
            IN  IF num = None THEN None ELSE Some(Dimension(unit, Unwrap(num), <<>>))
    IN  IF StartsWith(<<"c", "a", "l", "c", "(">>)
        THEN Some(Dimension("Calc", [fin |-> TRUE, n |-> 0], str))
        ELSE IF EndsWith(<<"v", "w">>) THEN Arm("Vw", <<"v", "w">>)
        ELSE IF EndsWith(<<"v", "h">>) THEN Arm("Vh", <<"v", "h">>)
        ELSE IF EndsWith(<<"%">>) THEN Arm("Percent", <<"%">>)
        ELSE IF EndsWith(<<"p", "x">>) THEN Arm("Px", <<"p", "x">>)
        ELSE Arm("Px", <<>>)

\* the JSON written for position.x: the key is skipped for None; Px goes
\* through serialize_f64, which writes null for a value that is not finite;
\* the other units are written as strings
SerializeX(x) ==
    IF x = None THEN [kind |-> "absent", n |-> 0, str |-> <<>>]
    ELSE IF Unwrap(x).unit = "Px"
    THEN IF Unwrap(x).v.fin
         THEN [kind |-> "number", n |-> Unwrap(x).v.n, str |-> <<>>]
         ELSE [kind |-> "null", n |-> 0, str |-> <<>>]
    ELSE [kind |-> "string", n |-> 0, str |-> to_css(Unwrap(x))]

\* the position.x read from that JSON: Option<Dimension> takes an absent key
\* and null as None, a number as Px, a string through Dimension::parse
DeserializeX(json) ==
    CASE json.kind = "absent" -> None
      [] json.kind = "null" -> None
      [] json.kind = "number" -> Some(Dimension("Px", [fin |-> TRUE, n |-> json.n], <<>>))
      [] json.kind = "string" -> ParseDimension(json.str)

\* serde_json::to_string_pretty(&layout) and serde_json::from_str of it: the
\* layout LayoutManager::load gives for the file LayoutManager::save wrote
Stored(layout) == [layout EXCEPT !.x = DeserializeX(SerializeX(layout.x))]

\* compile_scss_to_css, as an uninterpreted injective function of the source
CompileScss(scss) == <<"css", scss>>

\* Layout::compile_scss: only a non-empty custom_css is compiled
compile_scss(layout) ==
    IF layout.custom_css # NoCss /\ layout.custom_css # ""
    THEN [layout EXCEPT !.compiled_css = CompileScss(layout.custom_css)]
    ELSE layout

default_layout == Layout("default", NoCss, NoCss)

(***************************************************************************)
(* State.                                                                  *)
(***************************************************************************)
VARIABLES
    clients,          \* ChatServer.clients: id -> Connection
    chat_messages,    \* ChatServer.chat_messages: id -> Message
    capacity,         \* chat_messages.capacity()
    featured_message, \* ChatServer.featured_message: None or a Message
    viewer_counts,    \* ChatServer.viewer_counts: platform -> count
    active_layout,    \* ChatServer.active_layout
    database,         \* the paid_messages table: id -> row
    layout_files,     \* the layouts directory: name -> Layout
    now,              \* the wall clock, in hours since the hub was built
    out,              \* what the last handled event did: broadcast and result
    sess,             \* the ChatClient actors: session -> its fields
    mailbox           \* the hub's mailbox: messages sent and not yet handled

hubVars == <<clients, chat_messages, capacity, featured_message, viewer_counts,
             active_layout, database, layout_files, out>>

sessVars == <<sess, mailbox>>

vars == <<clients, chat_messages, capacity, featured_message, viewer_counts,
          active_layout, database, layout_files, now, out, sess, mailbox>>

\* the effects of one handled event: the Reply handed to each recipient in
\* `to` carries `tag` and `payload` (tag "" and no recipient: no broadcast);
\* `ret` is the handler's result
Out(op, arg, tag, payload, to, ret, store_ok) ==
    [op |-> op, arg |-> arg, tag |-> tag, payload |-> payload, to |-> to,
     ret |-> ret, store_ok |-> store_ok]

\* the recipients of `for (_, conn) in &self.clients`
AllRecipients == {clients[k].recipient : k \in DOMAIN clients}

(***************************************************************************)
(* Persistent Store (database.rs): the table is a map id -> row.           *)
(***************************************************************************)
upsert_paid_message(db, msg) == MapInsert(db, msg.id, MessageToRow(msg))

get_paid_message(db, id) ==
    IF id \in DOMAIN db THEN Some(row_to_message(db[id])) ELSE None

\* for comparison: a delete that removes no row
delete_no_paid_message(db, id) == db

delete_paid_message(db, id) == MapRemove(db, id)

\* for comparison: a cleanup that also deletes the rows at the cutoff
cleanup_through_cutoff(db, t, hours) ==
    [k \in {i \in DOMAIN db : ~(db[i].received_at <= t - hours)} |-> db[k]]

\* DELETE FROM paid_messages WHERE received_at < cutoff
cleanup_old_messages(db, t, hours) ==
    [k \in {i \in DOMAIN db : ~(db[i].received_at < t - hours)} |-> db[k]]

\* the rows WHERE received_at >= cutoff, as messages
MessagesSince(db, t, hours) ==
    {row_to_message(db[k]) : k \in {i \in DOMAIN db : db[i].received_at >= t - hours}}

\* for comparison: a query that finds no row
get_no_paid_messages(db, t, hours) == {<<>>}

\* ORDER BY received_at ASC: the orders the query may return the rows in
get_paid_messages_since_hours(db, t, hours) ==
    {q \in Orders(MessagesSince(db, t, hours)) :
        \A i, j \in DOMAIN q : i < j => q[i].received_at <= q[j].received_at}

(***************************************************************************)
(* Layout store (LayoutManager).                                           *)
(***************************************************************************)
\* format!("{}/{}.json", self.layouts_dir, name), as the file system resolves
\* it: the directory entry the path names.  "./default" is
\* layouts/./default.json, the file of "default".
file_path(name) ==
    CASE name = "./default" -> "default"
      [] name = "./alt" -> "alt"
      [] OTHER -> name

lm_exists(files, name) == file_path(name) \in DOMAIN files

\* LayoutManager::load, for a file that can be read and parsed
lm_load(files, name) == files[file_path(name)]

\* the sorted list of names
lm_list(files) ==
    SelectSeq(LayoutNamesSorted, LAMBDA n : n \in DOMAIN files)

\* LayoutManager::save compiles the SCSS and writes <name>.json
lm_save(files, layout) ==
    MapInsert(files, file_path(layout.name), Stored(compile_scss(layout)))

lm_delete(files, name) == MapRemove(files, file_path(name))

(***************************************************************************)
(* ChatServer::new.  The store is what an earlier run left behind.         *)
(***************************************************************************)
\* receipt times of the rows an earlier run left: 1, 24, 30, 48 and 49 hours
\* ago
PriorReceipts == {-1, -24, -30, -48, -49}

PriorRow(id, received_at) ==
    MessageToRow(Message(id, received_at, FALSE, <<"p">>, <<>>, <<"u">>, 500, "USD"))

PriorStores ==
    UNION {[D -> PriorReceipts] : D \in SUBSET MsgIds}

PriorStore(f) == [id \in DOMAIN f |-> PriorRow(id, f[id])]

\* LayoutManager::new leaves at least one layout in the directory
InitialLayoutFiles ==
    {[n \in D |-> Layout(n, NoCss, NoCss)] : D \in (SUBSET LayoutNames) \ {{}}}

InitialActiveLayout(files) ==
    IF lm_exists(files, "default") THEN "default"
    ELSE IF Len(lm_list(files)) > 0 THEN lm_list(files)[1]
    ELSE "default"

\* the cache is seeded from the rows of the last 24 hours, keyed by id
SeedCache(db) ==
    LET recent == MessagesSince(db, 0, CACHE_WINDOW_HOURS)
    IN  [id \in {m.id : m \in recent} |-> CHOOSE m \in recent : m.id = id]

\* the capacity of the table a std HashMap allocates to hold n entries: none
\* for 0 (collect() of no row, HashMap::new), otherwise 7/8 of the power of
\* two number of buckets, 3 for the smallest table
table_capacity(n) ==
    IF n = 0 THEN 0
    ELSE CHOOSE c \in {3, 7, 14, 28, 56, 112, 224} :
             c >= n /\ \A d \in {3, 7, 14, 28, 56, 112, 224} : d >= n => c <= d

\* a ChatClient: st is "New" until its websocket is opened, "Active" once the
\* hub's Connect reply set its id, "Stopped" after stopping(); done is the
\* last subscribe_layout command its text handler processed; idle is the
\* time since last_heartbeat_at, in seconds, as the heartbeat check saw it;
\* ev is what the session did last for its heartbeat or its end; dis lists
\* the ids of the Disconnect messages it submitted; inbox holds the Reply
\* messages in its mailbox and text the ones it has written to its websocket;
\* frame is the last text frame it received and sent the kind of hub message
\* it made of that frame ("none": the frame was only logged)
NewSession ==
    [st |-> "New", id |-> None, done |-> None, idle |-> 0, ev |-> "none", dis |-> <<>>,
     inbox |-> <<>>, text |-> <<>>, frame |-> <<>>, sent |-> "none"]

\* ChatServer::new; cleanup_ok, load_ok: the store's cleanup and its query
\* succeed; out.prior: the store as the hub found it
InitWith(priors, fileSets) ==
    /\ now = 0
    /\ \E f \in priors, cleanup_ok \in BOOLEAN, load_ok \in BOOLEAN :
          LET prior == PriorStore(f)
              db == IF cleanup_ok
                    THEN cleanup_old_messages(prior, 0, RETENTION_HOURS)
                    ELSE prior
          IN  /\ database = db
              /\ chat_messages = IF load_ok THEN SeedCache(db) ELSE EmptyMap
              /\ capacity = IF load_ok
                            THEN table_capacity(Cardinality(DOMAIN SeedCache(db)))
                            ELSE 0
              /\ out = Out("new", None, "", None, {}, None, cleanup_ok /\ load_ok)
                       @@ [prior |-> prior, cleanup_ok |-> cleanup_ok, load_ok |-> load_ok]
    /\ \E files \in fileSets :
          /\ layout_files = files
          /\ active_layout = InitialActiveLayout(files)
    /\ clients = EmptyMap
    /\ viewer_counts = EmptyMap
    /\ featured_message = None
    /\ sess = [s \in Sessions |-> NewSession]
    /\ mailbox = <<>>

Init == InitWith(PriorStores, InitialLayoutFiles)

(***************************************************************************)
(* ChatServer handlers on the hub's own state.  Every Handle* action is    *)
(* one actix handler, run to completion.                                   *)
(***************************************************************************)
\* rand::random::<usize>(): any identifier, registered or not
RandomId == ConnIds

\* Handler<Connect>: recipient r is the address of the connecting session
HandleConnect(r) ==
    \E id \in RandomId :
        /\ clients' = MapInsert(clients, id, Connection(id, r, None))
        /\ out' = Out("Connect", r, "", None, {}, id, TRUE)
        /\ UNCHANGED <<chat_messages, capacity, featured_message, viewer_counts,
                       active_layout, database, layout_files>>

\* for comparison: a Disconnect that leaves the registry as it is
clients_not_removed(id) == clients

\* for comparison: a Disconnect that empties the registry on an unknown id
clients_remove_or_clear(id) ==
    IF id \in DOMAIN clients THEN MapRemove(clients, id)
    ELSE [k \in {} |-> clients[k]]

\* Handler<Disconnect>: self.clients.remove(&msg.id)
clients_remove(id) == MapRemove(clients, id)

\* Handler<Disconnect>
HandleDisconnect(id) ==
    /\ clients' = clients_remove(id)
    /\ out' = Out("Disconnect", id, "", None, {}, None, TRUE)
              @@ [known |-> id \in DOMAIN clients]
    /\ UNCHANGED <<chat_messages, capacity, featured_message, viewer_counts,
                   active_layout, database, layout_files>>

\* Handler<SubscribeLayout>
HandleSubscribeLayout(client_id, layout_name) ==
    /\ clients' = IF client_id \in DOMAIN clients
                  THEN [clients EXCEPT ![client_id].subscribed_layout = Some(layout_name)]
                  ELSE clients
    /\ out' = Out("SubscribeLayout", <<client_id, layout_name>>, "", None, {},
                  None, TRUE)
    /\ UNCHANGED <<chat_messages, capacity, featured_message, viewer_counts,
                   active_layout, database, layout_files>>

\* for comparison: a subscription that does not filter
should_send_any(conn, layout) == TRUE

\* ChatServer::broadcast_layout: should_send
should_send(conn, layout) ==
    IF conn.subscribed_layout = None THEN TRUE
    ELSE Unwrap(conn.subscribed_layout) = layout.name

\* the recipients broadcast_layout hands the layout_update to
LayoutTargets(layout) ==
    {clients[k].recipient : k \in {i \in DOMAIN clients : should_send(clients[i], layout)}}

\* Handler<LayoutUpdate>
HandleLayoutUpdate(layout) ==
    /\ out' = Out("LayoutUpdate", layout, "layout_update", layout,
                  LayoutTargets(layout), None, TRUE)
    /\ UNCHANGED <<clients, chat_messages, capacity, featured_message, viewer_counts,
                   active_layout, database, layout_files>>

\* for comparison: a switch that names the layout active before loading it
HandleSwitchLayout_Eager(name, io_ok) ==
    /\ active_layout' = name
    /\ out' = IF io_ok /\ lm_exists(layout_files, name)
              THEN Out("SwitchLayout", name, "layout_update", lm_load(layout_files, name),
                       LayoutTargets(lm_load(layout_files, name)), "Ok", io_ok)
              ELSE Out("SwitchLayout", name, "", None, {}, "Err", io_ok)
    /\ UNCHANGED <<clients, chat_messages, capacity, featured_message, viewer_counts,
                   database, layout_files>>

\* Handler<SwitchLayout>; io_ok: the layout file can be read
HandleSwitchLayout(name, io_ok) ==
    IF io_ok /\ lm_exists(layout_files, name)
    THEN LET layout == lm_load(layout_files, name)
         IN  /\ active_layout' = name
             /\ out' = Out("SwitchLayout", name, "layout_update", layout,
                           LayoutTargets(layout), "Ok", io_ok)
             /\ UNCHANGED <<clients, chat_messages, capacity, featured_message,
                            viewer_counts, database, layout_files>>
    ELSE /\ out' = Out("SwitchLayout", name, "", None, {}, "Err", io_ok)
         /\ UNCHANGED <<clients, chat_messages, capacity, featured_message, viewer_counts,
                        active_layout, database, layout_files>>

\* Handler<SaveLayout>; io_ok: the layout file can be written
HandleSaveLayout(layout, io_ok) ==
    IF io_ok
    THEN /\ layout_files' = lm_save(layout_files, layout)
         /\ out' = Out("SaveLayout", layout, "layout_update", layout,
                       LayoutTargets(layout), "Ok", io_ok)
         /\ UNCHANGED <<clients, chat_messages, capacity, featured_message, viewer_counts,
                        active_layout, database>>
    ELSE /\ out' = Out("SaveLayout", layout, "", None, {}, "Err", io_ok)
         /\ UNCHANGED <<clients, chat_messages, capacity, featured_message, viewer_counts,
                        active_layout, database, layout_files>>

\* for comparison: a delete that does not look at the active layout
delete_refused_never(name) == FALSE

\* Handler<DeleteLayout>: msg.name == self.active_layout
delete_refused(name) == name = active_layout

\* Handler<DeleteLayout>; io_ok: the layout file can be removed
HandleDeleteLayout(name, io_ok) ==
    IF ~delete_refused(name) /\ io_ok /\ lm_exists(layout_files, name)
    THEN /\ layout_files' = lm_delete(layout_files, name)
         /\ out' = Out("DeleteLayout", name, "", None, {}, "Ok", io_ok)
         /\ UNCHANGED <<clients, chat_messages, capacity, featured_message, viewer_counts,
                        active_layout, database>>
    ELSE /\ out' = Out("DeleteLayout", name, "", None, {}, "Err", io_ok)
         /\ UNCHANGED <<clients, chat_messages, capacity, featured_message, viewer_counts,
                        active_layout, database, layout_files>>

\* Handler<RequestLayoutByName>
HandleRequestLayoutByName(name, io_ok) ==
    /\ out' = Out("RequestLayoutByName", name, "", None, {},
                  IF io_ok /\ lm_exists(layout_files, name)
                  THEN Some(lm_load(layout_files, name)) ELSE None,
                  io_ok)
    /\ UNCHANGED <<clients, chat_messages, capacity, featured_message, viewer_counts,
                   active_layout, database, layout_files>>

\* for comparison: the amount taken over without conversion
ContentUsd_Raw(m) == m.amount

\* Handler<Content>: the converted amount (0 unless the amount is positive)
ContentUsd(m) ==
    IF m.amount > 0 THEN get_usd(m.currency, m.amount) ELSE 0

\* for comparison: a normalization that keeps the incoming currency code
ContentMessage_KeepCurrency(m, keys, order) ==
    [m EXCEPT !.username = EscapeHtml(m.username),
              !.message = SanitizeMessage(m.message, m.emojis, keys, order),
              !.amount = ContentUsd(m)]

\* Handler<Content>: chat_msg, the message as sanitized and normalized
ContentMessage(m, keys, order) ==
    [m EXCEPT !.username = EscapeHtml(m.username),
              !.message = SanitizeMessage(m.message, m.emojis, keys, order),
              !.amount = ContentUsd(m),
              !.currency = "USD"]

\* for comparison: an upsert that is not guarded
ContentPersists_Always(usd) == TRUE

\* Handler<Content>: `if usd > 0.0` guards the upsert
ContentPersists(usd) == usd > 0

\* for comparison: a chat fan-out filtered like a layout broadcast
ContentTargets_Unsubscribed ==
    {clients[k].recipient : k \in {i \in DOMAIN clients : clients[i].subscribed_layout = None}}

\* Handler<Content>: the recipients of the chat_message Reply
ContentTargets == AllRecipients

\* the width of usize in the model
UsizeBits == 16

\* a - b of two usize in a build without overflow checks
wrapping_sub(a, b) == (a - b) % (2 ^ UsizeBits)

\* Handler<Content>; keys: the random token keys, order: the iteration order
\* of the replacements map, db_ok: the upsert succeeds
HandleContent(m, keys, order, db_ok) ==
    LET chat_msg == ContentMessage(m, keys, order)
        usd == ContentUsd(m)
        len == Cardinality(DOMAIN chat_messages)
        underflow == capacity < 1
        limit == wrapping_sub(capacity, 1)
        reserved == IF len >= limit /\ capacity < len + 100
                    THEN table_capacity(len + 100) ELSE capacity
        inserted == IF m.id \notin DOMAIN chat_messages /\ len >= reserved
                    THEN table_capacity(len + 1) ELSE reserved
    IN  \/ /\ out' = Out("Content", m, "chat_message", chat_msg, ContentTargets,
                         None, ContentPersists(usd) => db_ok)
                      @@ [underflow |-> underflow]
           /\ chat_messages' = MapInsert(chat_messages, m.id, chat_msg)
           /\ capacity' = inserted
           /\ database' = IF ContentPersists(usd) /\ db_ok
                          THEN upsert_paid_message(database, chat_msg)
                          ELSE database
           /\ UNCHANGED <<clients, featured_message, viewer_counts, active_layout,
                          layout_files>>
        \/ /\ underflow
           /\ out' = Out("panic", m, "chat_message", chat_msg, ContentTargets,
                         None, TRUE)
           /\ UNCHANGED <<clients, chat_messages, capacity, featured_message,
                          viewer_counts, active_layout, database, layout_files>>

\* for comparison: a lookup that never falls back to the store
FeatureLookup_CacheOnly(id, db_ok) ==
    IF id # None /\ Unwrap(id) \in DOMAIN chat_messages
    THEN Some(chat_messages[Unwrap(id)]) ELSE None

\* for comparison: a lookup that keeps the featured message when nothing
\* is found
FeatureLookup_Sticky(id, db_ok) ==
    IF id = None THEN featured_message
    ELSE IF Unwrap(id) \in DOMAIN chat_messages THEN Some(chat_messages[Unwrap(id)])
    ELSE IF db_ok /\ Unwrap(id) \in DOMAIN database
         THEN get_paid_message(database, Unwrap(id))
    ELSE featured_message

\* for comparison: a lookup that unfeatures a message featured already
FeatureLookup_Toggle(id, db_ok) ==
    IF id = None THEN None
    ELSE IF featured_message # None /\ Unwrap(featured_message).id = Unwrap(id) THEN None
    ELSE IF Unwrap(id) \in DOMAIN chat_messages THEN Some(chat_messages[Unwrap(id)])
    ELSE IF db_ok THEN get_paid_message(database, Unwrap(id))
    ELSE None

\* Handler<FeatureMessage>: found_msg; db_ok: the store read succeeds
FeatureLookup(id, db_ok) ==
    IF id = None THEN None
    ELSE IF Unwrap(id) \in DOMAIN chat_messages THEN Some(chat_messages[Unwrap(id)])
    ELSE IF db_ok THEN get_paid_message(database, Unwrap(id))
    ELSE None

\* Handler<FeatureMessage>: the recipients of the feature_message Reply
FeatureTargets == AllRecipients

\* Handler<FeatureMessage>; id is None for unfeature; out.replaced: a message
\* was featured before, out.again: the event handled before was the same
HandleFeatureMessage(id, db_ok) ==
    LET featured_msg == FeatureLookup(id, db_ok)
    IN  /\ featured_message' = featured_msg
        /\ out' = Out("FeatureMessage", id, "feature_message", featured_msg,
                      FeatureTargets, featured_msg,
                      (id # None /\ Unwrap(id) \notin DOMAIN chat_messages) => db_ok)
                  @@ [replaced |-> featured_message # None,
                      again |-> out.op = "FeatureMessage" /\ out.arg = id]
        /\ UNCHANGED <<clients, chat_messages, capacity, viewer_counts, active_layout,
                       database, layout_files>>

\* Handler<RequestFeaturedMessage>
HandleRequestFeaturedMessage ==
    /\ out' = Out("RequestFeaturedMessage", None, "", None, {},
                  featured_message, TRUE)
    /\ UNCHANGED <<clients, chat_messages, capacity, featured_message, viewer_counts,
                   active_layout, database, layout_files>>

\* for comparison: a removal that clears the featured message only when the
\* id was cached
FeaturedAfterRemove_CachedOnly(id) ==
    IF featured_message # None /\ Unwrap(featured_message).id = id
       /\ id \in DOMAIN chat_messages
    THEN None ELSE featured_message

\* for comparison: a removal that leaves the featured message alone
FeaturedAfterRemove_Keep(id) == featured_message

\* Handler<RemoveMessage>: the featured message after the removal of id
FeaturedAfterRemove(id) ==
    IF featured_message # None /\ Unwrap(featured_message).id = id
    THEN None ELSE featured_message

\* for comparison: a handler that returns when the delete fails
HandleRemoveMessage_Abort(id, db_ok) ==
    /\ chat_messages' = MapRemove(chat_messages, id)
    /\ database' = IF db_ok THEN delete_paid_message(database, id) ELSE database
    /\ featured_message' = IF db_ok THEN FeaturedAfterRemove(id) ELSE featured_message
    /\ out' = Out("RemoveMessage", id, IF db_ok THEN "remove_message" ELSE "",
                  id, IF db_ok THEN AllRecipients ELSE {}, None, db_ok)
              @@ [cleared |-> db_ok /\ featured_message # FeaturedAfterRemove(id),
                  cached |-> id \in DOMAIN chat_messages,
                  stored |-> id \in DOMAIN database]
    /\ UNCHANGED <<clients, capacity, viewer_counts, active_layout, layout_files>>

\* Handler<RemoveMessage>; db_ok: the delete succeeds; out.cleared: the
\* handler took the branch that clears the featured message; out.cached,
\* out.stored: the id was in the cache, in the store
HandleRemoveMessage(id, db_ok) ==
    /\ chat_messages' = MapRemove(chat_messages, id)
    /\ database' = IF db_ok THEN delete_paid_message(database, id) ELSE database
    /\ featured_message' = FeaturedAfterRemove(id)
    /\ out' = Out("RemoveMessage", id, "remove_message", id, AllRecipients,
                  None, db_ok)
              @@ [cleared |-> featured_message # FeaturedAfterRemove(id),
                  cached |-> id \in DOMAIN chat_messages,
                  stored |-> id \in DOMAIN database]
    /\ UNCHANGED <<clients, capacity, viewer_counts, active_layout, layout_files>>

\* Handler<PaidMessagesSince>; db_ok: the query succeeds
HandlePaidMessagesSince(hours, db_ok) ==
    /\ \E q \in (IF db_ok THEN get_paid_messages_since_hours(database, now, hours)
                 ELSE {<<>>}) :
          out' = Out("PaidMessagesSince", hours, "", None, {}, q, db_ok)
    /\ UNCHANGED <<clients, chat_messages, capacity, featured_message, viewer_counts,
                   active_layout, database, layout_files>>

\* slice::sort_by_key, a stable sort: m goes after the elements whose key is
\* not greater
InsertByKey(sorted, m) ==
    LET n == Cardinality({i \in DOMAIN sorted : sorted[i].received_at <= m.received_at})
    IN  SubSeq(sorted, 1, n) \o <<m>> \o SubSeq(sorted, n + 1, Len(sorted))

\* for comparison: the messages left in the order they were collected in
keep_order(s) == s

RECURSIVE sort_by_key(_)
sort_by_key(s) ==
    IF s = <<>> THEN <<>>
    ELSE InsertByKey(sort_by_key(SubSeq(s, 1, Len(s) - 1)), s[Len(s)])

\* Handler<RecentMessages>: last_messages before the sort; order is the
\* order the HashMap iterates its keys (and values) in
RecentSelection(order) ==
    LET len == Len(order)
        kept == IF len >= MAX_MESSAGES
                THEN SubSeq(order, len - MAX_MESSAGES + 1, len)
                ELSE order
    IN  [i \in DOMAIN kept |-> chat_messages[kept[i]]]

\* Handler<RecentMessages>
HandleRecentMessages(order) ==
    /\ out' = Out("RecentMessages", None, "", None, {},
                  sort_by_key(RecentSelection(order)), TRUE)
    /\ UNCHANGED <<clients, chat_messages, capacity, featured_message, viewer_counts,
                   active_layout, database, layout_files>>

\* for comparison: a report that is always broadcast
ViewCountUnchanged_Never(old, viewers) == FALSE

\* Handler<ViewCount>: the early return, old being what insert returned
ViewCountUnchanged(old, viewers) == old # None /\ Unwrap(old) = viewers

\* Handler<ViewCount>; out.old: the count stored for the platform before
HandleViewCount(platform, viewers) ==
    LET old == MapGet(viewer_counts, platform)
        new_viewers == MapInsert(viewer_counts, platform, viewers)
    IN  /\ viewer_counts' = new_viewers
        /\ out' = (IF ViewCountUnchanged(old, viewers)
                   THEN Out("ViewCount", <<platform, viewers>>, "", None, {}, None, TRUE)
                   ELSE Out("ViewCount", <<platform, viewers>>, "viewers", new_viewers,
                            AllRecipients, None, TRUE))
                  @@ [old |-> old]
        /\ UNCHANGED <<clients, chat_messages, capacity, featured_message, active_layout,
                       database, layout_files>>

(***************************************************************************)
(* Hub events, handled directly: each action is the hub handling one       *)
(* message, whoever sent it.  A session's Connect is handled once: its     *)
(* recipient is registered, and the session learns the id.                 *)
(***************************************************************************)
\* the hub actor is alive: a panic in a handler ends it, and nothing is
\* handled after that
Running == out.op # "panic"

Connect(r) ==
    /\ Running
    /\ sess[r].st = "New"
    /\ HandleConnect(r)
    /\ sess' = [sess EXCEPT ![r] = [@ EXCEPT !.st = "Active", !.id = Some(out'.ret)]]
    /\ UNCHANGED <<now, mailbox>>

Disconnect(id) ==
    /\ Running
    /\ HandleDisconnect(id) /\ UNCHANGED <<now, sess, mailbox>>

SubscribeLayout(client_id, layout_name) ==
    /\ Running
    /\ HandleSubscribeLayout(client_id, layout_name) /\ UNCHANGED <<now, sess, mailbox>>

LayoutUpdate(layout) ==
    /\ Running
    /\ HandleLayoutUpdate(layout) /\ UNCHANGED <<now, sess, mailbox>>

SwitchLayout(name, io_ok) ==
    /\ Running
    /\ HandleSwitchLayout(name, io_ok) /\ UNCHANGED <<now, sess, mailbox>>

SaveLayout(layout, io_ok) ==
    /\ Running
    /\ HandleSaveLayout(layout, io_ok) /\ UNCHANGED <<now, sess, mailbox>>

DeleteLayout(name, io_ok) ==
    /\ Running
    /\ HandleDeleteLayout(name, io_ok) /\ UNCHANGED <<now, sess, mailbox>>

RequestLayoutByName(name, io_ok) ==
    /\ Running
    /\ HandleRequestLayoutByName(name, io_ok) /\ UNCHANGED <<now, sess, mailbox>>

\* the values of rand::random::<usize>() for a token key
KeyInputs == 1..MaxKey

\* keys: what rand::random() draws for each emoji; order: the order in which
\* the replacements map is iterated
Content(m, db_ok) ==
    /\ Running
    /\ \E keys \in [1..Len(m.emojis) -> KeyInputs] :
          \E order \in Orders({keys[i] : i \in 1..Len(m.emojis)}) :
              HandleContent(m, keys, order, db_ok)
    /\ UNCHANGED <<now, sess, mailbox>>

FeatureMessage(id, db_ok) ==
    /\ Running
    /\ HandleFeatureMessage(id, db_ok) /\ UNCHANGED <<now, sess, mailbox>>

RequestFeaturedMessage ==
    /\ Running
    /\ HandleRequestFeaturedMessage /\ UNCHANGED <<now, sess, mailbox>>

RemoveMessage(id, db_ok) ==
    /\ Running
    /\ HandleRemoveMessage(id, db_ok) /\ UNCHANGED <<now, sess, mailbox>>

PaidMessagesSince(hours, db_ok) ==
    /\ Running
    /\ HandlePaidMessagesSince(hours, db_ok) /\ UNCHANGED <<now, sess, mailbox>>

RecentMessages(order) ==
    /\ Running
    /\ HandleRecentMessages(order) /\ UNCHANGED <<now, sess, mailbox>>

ViewCount(platform, viewers) ==
    /\ Running
    /\ HandleViewCount(platform, viewers) /\ UNCHANGED <<now, sess, mailbox>>

\* for comparison: a mailbox that puts the newest message first
do_send_front(box, reply) == <<reply>> \o box

\* Recipient::do_send: the message joins the recipient's mailbox, whatever
\* its capacity
do_send(box, reply) == Append(box, reply)

\* conn.recipient.do_send(message::Reply(..)) for every recipient of the
\* event o; a stopped actor's mailbox is closed and the message is lost
Handed(o) ==
    [s \in Sessions |->
        IF s \in o.to /\ sess[s].st = "Active"
        THEN [sess[s] EXCEPT !.inbox = do_send(@, [tag |-> o.tag, payload |-> o.payload])]
        ELSE sess[s]]

\* no session has been handed MaxReplies messages yet
RoomForReply ==
    \A s \in Sessions : Len(sess[s].text) + Len(sess[s].inbox) < MaxReplies

\* Handler<Content> with the mailboxes of its recipients
ContentSent(m) ==
    /\ Running
    /\ RoomForReply
    /\ \E keys \in [1..Len(m.emojis) -> KeyInputs] :
          \E order \in Orders({keys[i] : i \in 1..Len(m.emojis)}) :
              HandleContent(m, keys, order, TRUE)
    /\ sess' = Handed(out')
    /\ UNCHANGED <<now, mailbox>>

\* Handler<FeatureMessage> with the mailboxes of its recipients
FeatureMessageSent(id) ==
    /\ Running
    /\ RoomForReply
    /\ HandleFeatureMessage(id, TRUE)
    /\ sess' = Handed(out')
    /\ UNCHANGED <<now, mailbox>>

\* Handler<RemoveMessage> with the mailboxes of its recipients
RemoveMessageSent(id) ==
    /\ Running
    /\ RoomForReply
    /\ HandleRemoveMessage(id, TRUE)
    /\ sess' = Handed(out')
    /\ UNCHANGED <<now, mailbox>>

\* Handler<Reply> for ChatClient: ctx.text(msg.0), oldest message first
Reply(s) ==
    /\ sess[s].st = "Active"
    /\ sess[s].inbox # <<>>
    /\ sess' = [sess EXCEPT ![s].text = Append(@, Head(sess[s].inbox)),
                            ![s].inbox = Tail(@)]
    /\ UNCHANGED <<now, hubVars, mailbox>>

\* a Dimension is written to JSON and read back, and written as CSS and
\* parsed: out.ret holds both results
DimensionRoundTrip(d) ==
    /\ Running
    /\ out' = Out("Dimension", d, "", None, {},
                  [json |-> DeserializeX(SerializeX(Some(d))),
                   css |-> ParseDimension(to_css(d))], TRUE)
    /\ UNCHANGED <<clients, chat_messages, capacity, featured_message, viewer_counts,
                   active_layout, database, layout_files, now, sess, mailbox>>

\* a string is parsed as a Dimension, and read as the JSON string it is
DimensionParse(str) ==
    /\ Running
    /\ out' = Out("Dimension::parse", str, "", None, {},
                  [json |-> DeserializeX([kind |-> "string", n |-> 0, str |-> str]),
                   css |-> ParseDimension(str)], TRUE)
    /\ UNCHANGED <<clients, chat_messages, capacity, featured_message, viewer_counts,
                   active_layout, database, layout_files, now, sess, mailbox>>

\* an hour passes
Tick ==
    /\ now < MaxTicks
    /\ now' = now + 1
    /\ UNCHANGED <<hubVars, sess, mailbox>>

(***************************************************************************)
(* ChatClient (client.rs): the websocket sessions.  A request sent with    *)
(* send(..).wait(ctx) suspends the session until the hub has answered, so  *)
(* request, handler and reply are one step; try_send only enqueues.        *)
(***************************************************************************)
\* Addr::try_send: the message is dropped when the mailbox is full
try_send(mb, msg) ==
    IF Len(mb) < MailboxCapacity THEN Append(mb, msg) ELSE mb

\* StreamHandler::handle, Text frame {"subscribe_layout": name}: the session
\* asks the hub for the layout and writes it to its own client
TextSubscribeLayout(s, name, io_ok) ==
    /\ Running
    /\ sess[s].st = "Active"
    /\ HandleRequestLayoutByName(name, io_ok)
    /\ sess' = [sess EXCEPT ![s].done = Some(name)]
    /\ UNCHANGED <<now, mailbox>>

\* a text frame is a JSON object, written as the sequence of its members
\* <<key, value>>; a value is null, a string or a number
JNull == [t |-> "null", v |-> "null"]
JStr(x) == [t |-> "str", v |-> x]
JNum(n) == [t |-> "num", v |-> DigitChars[n + 1]]

\* the value of the member `key`, if the object has one
Field(frame, key) ==
    IF \E i \in 1..Len(frame) : frame[i][1] = key
    THEN Some(frame[CHOOSE i \in 1..Len(frame) : frame[i][1] = key][2])
    ELSE None

\* text.contains(word), for a word that is a whole key or a whole string
contains(frame, word) ==
    \E i \in 1..Len(frame) :
        \/ frame[i][1] = word
        \/ frame[i][2].t = "str" /\ frame[i][2].v = word

\* an Option<T> member: absent or null is None, a value of another JSON
\* type than `t` fails the whole parse
OptionMember(frame, key, t) ==
    LET f == Field(frame, key)
    IN  IF f = None \/ Unwrap(f).t = "null" THEN [ok |-> TRUE, val |-> None]
        ELSE IF Unwrap(f).t = t THEN [ok |-> TRUE, val |-> Some(Unwrap(f).v)]
        ELSE [ok |-> FALSE, val |-> None]

\* the number a digit stands for
DigitValue(v) == (CHOOSE i \in 1..Len(DigitChars) : DigitChars[i] = v) - 1

\* serde_json::from_str::<LivestreamUpdate>: platform is a String and channel
\* is read by deserialize_channel, which has no default: both must be
\* there.  The frames of the model carry no messages and no removals.
ParseLivestreamUpdate(frame) ==
    LET platform == Field(frame, "platform")
        channel == Field(frame, "channel")
        viewers == OptionMember(frame, "viewers", "num")
    IN  IF /\ platform # None /\ Unwrap(platform).t = "str"
           /\ channel # None
           /\ viewers.ok
        THEN [ok |-> TRUE, platform |-> Unwrap(platform).v,
              viewers |-> IF viewers.val = None THEN None
                          ELSE Some(DigitValue(Unwrap(viewers.val)))]
        ELSE [ok |-> FALSE, platform |-> "", viewers |-> None]

\* serde_json::from_str::<CommandFeatureMessage>: a Uuid is written as the
\* string of a message id; other members are ignored
ParseCommandFeatureMessage(frame) ==
    LET m == OptionMember(frame, "feature_message", "str")
    IN  IF ~m.ok THEN [ok |-> FALSE, feature_message |-> None]
        ELSE IF m.val = None THEN [ok |-> TRUE, feature_message |-> None]
        ELSE IF \E id \in MsgIds : DigitChars[id + 1] = Unwrap(m.val)
        THEN [ok |-> TRUE, feature_message |-> Some(DigitValue(Unwrap(m.val)))]
        ELSE [ok |-> FALSE, feature_message |-> None]

\* serde_json::from_str::<LayoutCommand>.  The frames of the model carry no
\* layout_update, save_layout, request_layout and request_layouts.
ParseLayoutCommand(frame) ==
    LET switch == OptionMember(frame, "switch_layout", "str")
        delete == OptionMember(frame, "delete_layout", "str")
        subscribe == OptionMember(frame, "subscribe_layout", "str")
    IN  [ok |-> switch.ok /\ delete.ok /\ subscribe.ok,
         switch_layout |-> switch.val, delete_layout |-> delete.val,
         subscribe_layout |-> subscribe.val]

\* cmd.feature_message.is_some() || text.contains("feature_message")
has_feature_message(cmd, frame) ==
    cmd.feature_message # None \/ contains(frame, "feature_message")

\* StreamHandler::handle, Text branch: what the session makes of a frame,
\* the first shape that parses and passes its test; type "none" is the
\* final log::warn!
Dispatch(frame) ==
    LET update == ParseLivestreamUpdate(frame)
        cmd == ParseCommandFeatureMessage(frame)
        lc == ParseLayoutCommand(frame)
    IN  IF update.ok /\ update.viewers # None
        THEN [type |-> "ViewCount", platform |-> update.platform,
              viewers |-> Unwrap(update.viewers)]
        ELSE IF cmd.ok /\ has_feature_message(cmd, frame)
        THEN [type |-> "FeatureMessage", id |-> cmd.feature_message]
        ELSE IF lc.ok /\ lc.switch_layout # None
        THEN [type |-> "SwitchLayout", name |-> Unwrap(lc.switch_layout)]
        ELSE IF lc.ok /\ lc.delete_layout # None
        THEN [type |-> "DeleteLayout", name |-> Unwrap(lc.delete_layout)]
        ELSE IF lc.ok /\ lc.subscribe_layout # None
        THEN [type |-> "RequestLayoutByName", name |-> Unwrap(lc.subscribe_layout)]
        ELSE [type |-> "none"]

\* ChatClient::send_or_reply: try_send, an error is logged and dropped
send_or_reply(mb, msg) == try_send(mb, msg)

\* message::Disconnect { id: self.id } as session s submits it
DisconnectOf(s) == [type |-> "Disconnect", id |-> Unwrap(sess[s].id), from |-> s]

\* Actor::stopping: one Disconnect is submitted
stopping(s, mb) == send_or_reply(mb, DisconnectOf(s))

\* StreamHandler::handle, Text frame: the command is submitted to the hub
\* with send_or_reply; subscribe_layout asks the hub and waits for the
\* layout; an unrecognized frame is logged
TextFrame(s, frame) ==
    /\ sess[s].st = "Active"
    /\ LET d == Dispatch(frame)
       IN  /\ sess' = [sess EXCEPT ![s].ev = "text", ![s].frame = frame,
                                   ![s].sent = d.type]
           /\ IF d.type = "none"
              THEN UNCHANGED <<hubVars, mailbox>>
              ELSE IF d.type = "RequestLayoutByName"
              THEN Running /\ HandleRequestLayoutByName(d.name, TRUE)
                   /\ UNCHANGED mailbox
              ELSE /\ mailbox' = send_or_reply(mailbox, d @@ [from |-> s])
                   /\ UNCHANGED hubVars
    /\ UNCHANGED now

\* Close frame, Continuation frame or protocol error: ctx.stop(), and
\* stopping() submits Disconnect { id: self.id }
SessionStop(s) ==
    /\ sess[s].st = "Active"
    /\ sess' = [sess EXCEPT ![s].st = "Stopped", ![s].ev = "close",
                            ![s].dis = Append(@, Unwrap(sess[s].id))]
    /\ mailbox' = stopping(s, mailbox)
    /\ UNCHANGED <<now, hubVars>>

\* StreamHandler::handle, Ping or Pong frame: last_heartbeat_at = now
PingPong(s) ==
    /\ sess[s].st = "Active"
    /\ sess' = [sess EXCEPT ![s].idle = 0, ![s].ev = "pong"]
    /\ UNCHANGED <<now, hubVars, mailbox>>

\* for comparison: a check that gives up at the threshold already
timed_out_early(elapsed) == elapsed >= CLIENT_TIMEOUT

\* ChatClient::heartbeat: duration_since(last_heartbeat_at) > CLIENT_TIMEOUT
timed_out(elapsed) == elapsed > CLIENT_TIMEOUT


\* ChatClient::heartbeat, the run_interval callback: it fires late intervals
\* after the one before; on a timeout it submits a Disconnect and stops the
\* actor, whose stopping() submits another; otherwise it pings
Heartbeat(s, late) ==
    /\ sess[s].st = "Active"
    /\ LET elapsed == sess[s].idle + HEARTBEAT_INTERVAL + late
       IN  IF timed_out(elapsed)
           THEN /\ sess' = [sess EXCEPT ![s].st = "Stopped", ![s].ev = "timeout",
                                        ![s].idle = elapsed,
                                        ![s].dis = @ \o <<Unwrap(sess[s].id),
                                                           Unwrap(sess[s].id)>>]
                /\ mailbox' = stopping(s, send_or_reply(mailbox, DisconnectOf(s)))
           ELSE /\ sess' = [sess EXCEPT ![s].ev = "ping", ![s].idle = elapsed]
                /\ UNCHANGED mailbox
    /\ UNCHANGED <<now, hubVars>>

\* the hub takes the next message of its mailbox
HubStep ==
    /\ Running
    /\ mailbox # <<>>
    /\ Head(mailbox).type = "Disconnect"
    /\ HandleDisconnect(Head(mailbox).id)
    /\ mailbox' = Tail(mailbox)
    /\ UNCHANGED <<now, sess>>

\* the hub takes the next message of its mailbox, a command of a session
HubCommand ==
    /\ Running
    /\ mailbox # <<>>
    /\ Head(mailbox).type # "Disconnect"
    /\ LET msg == Head(mailbox)
       IN  CASE msg.type = "ViewCount" -> HandleViewCount(msg.platform, msg.viewers)
             [] msg.type = "FeatureMessage" -> HandleFeatureMessage(msg.id, TRUE)
             [] msg.type = "SwitchLayout" ->
                    \E io_ok \in BOOLEAN : HandleSwitchLayout(msg.name, io_ok)
             [] msg.type = "DeleteLayout" ->
                    \E io_ok \in BOOLEAN : HandleDeleteLayout(msg.name, io_ok)
    /\ mailbox' = Tail(mailbox)
    /\ UNCHANGED <<now, sess>>

(***************************************************************************)
(* Inputs.                                                                 *)
(***************************************************************************)
\* what a feed sends: an unpaid message with the default currency, paid
\* messages in USD, in a currency with a rate and in one without, and a
\* negative amount; off: how many hours ago the message was received
ChatSamples ==
    {[amount |-> 0, currency |-> "ZWL", ph |-> FALSE, off |-> 0],
     [amount |-> 500, currency |-> "USD", ph |-> FALSE, off |-> 0],
     [amount |-> 500, currency |-> "EUR", ph |-> TRUE, off |-> 2],
     [amount |-> 500, currency |-> "ZWL", ph |-> FALSE, off |-> 0],
     [amount |-> -100, currency |-> "EUR", ph |-> FALSE, off |-> 0]}

ChatInput(id, x) ==
    Message(id, now - x.off, x.ph, <<"<">>, <<>>, <<"u">>, x.amount, x.currency)

ChatInputs == {ChatInput(id, x) : id \in MsgIds, x \in ChatSamples}

FeatureInputs == {None} \cup {Some(i) : i \in MsgIds}

LayoutInputs ==
    {Layout(n, c, k) : n \in LayoutNames, c \in {NoCss, "scss"}, k \in {NoCss, "stale"}}

Platforms == {"Twitch", "YouTube"}

ViewerCounts == 0..MaxViewers

\* how late a heartbeat interval fires, in seconds
Lateness == {0, 1}

\* unpaid messages with no, one or two emojis (a triple is <<find, replace,
\* name>>; one has a quote for its name), and
\* unpaid messages with HTML metacharacters
EmojiInputs ==
    LET triples == {<<<<"a">>, <<"u">>, <<"n">>>>, <<<<">">>, <<"v">>, <<"m">>>>,
                    <<<<"b">>, <<"u">>, <<"\"">>>>}
        lists == {<<>>} \cup {<<e>> : e \in triples} \cup [1..2 -> triples]
    IN  {Message(1, 0, FALSE, text, emojis, <<"u">>, 0, "USD") :
            text \in {<<"a">>, <<"a", "<">>, <<"b", "a">>}, emojis \in lists}
        \cup
        {Message(1, 0, FALSE, text, <<>>, username, 0, "USD") :
            text \in {<<"<", "b", ">", "&">>, <<"\"", "'">>},
            username \in {<<"u">>, <<"&", "\"">>}}

\* text frames: a viewer count, feature and unfeature commands, layout
\* commands, frames with members no shape knows and frames of one shape
\* whose string value reads "feature_message"
FrameInputs ==
    {<<<<"platform", JStr("Twitch")>>, <<"channel", JNull>>, <<"viewers", JNum(1)>>>>,
     <<<<"platform", JStr("Twitch")>>, <<"channel", JNull>>>>,
     <<<<"feature_message", JStr("1")>>>>,
     <<<<"feature_message", JNull>>>>,
     <<<<"feature_message", JStr("x")>>>>,
     <<<<"switch_layout", JStr("alt")>>>>,
     <<<<"switch_layout", JStr("feature_message")>>>>,
     <<<<"delete_layout", JStr("alt")>>>>,
     <<<<"subscribe_layout", JStr("alt")>>>>,
     <<<<"switch_layout", JNum(1)>>>>,
     <<<<"note", JStr("hello")>>>>,
     <<<<"note", JStr("feature_message")>>>>,
     <<>>}

\* the Dimension values a client can send: every unit with 0, 5 and inf
\* (the strings "5vw", "inf", ..), and two calc() expressions
DimensionValues ==
    {Dimension(u, v, <<>>) :
        u \in {"Px", "Vw", "Vh", "Percent"},
        v \in {[fin |-> TRUE, n |-> 0], [fin |-> TRUE, n |-> 5], [fin |-> FALSE, n |-> 0]}}
    \cup {Dimension("Calc", [fin |-> TRUE, n |-> 0], <<"c", "a", "l", "c", "(">> \o e) :
             e \in {<<"1", ")">>, <<"1", "%", ")">>}}

\* strings a client can send for a dimension
DimensionStrings ==
    {<<"5">>, <<" ", "5">>, <<"5", " ", "p", "x">>, <<"5", "%">>, <<"5", "v", "h">>,
     <<"i", "n", "f">>, <<"p", "x">>, <<"x">>, <<>>}

HourInputs == {1, 24}

(***************************************************************************)
(* Specifications.  Spec is the hub with every handler; the others are the *)
(* hub restricted to the handlers and inputs one group of properties is    *)
(* about.                                                                  *)
(***************************************************************************)
Next ==
    \/ \E r \in Sessions : Connect(r)
    \/ \E id \in ConnIds : Disconnect(id)
    \/ \E id \in ConnIds, n \in LayoutNames : SubscribeLayout(id, n)
    \/ \E l \in LayoutInputs : LayoutUpdate(l)
    \/ \E n \in LayoutNames, ok \in BOOLEAN : SwitchLayout(n, ok)
    \/ \E l \in LayoutInputs, ok \in BOOLEAN : SaveLayout(l, ok)
    \/ \E n \in LayoutNames, ok \in BOOLEAN : DeleteLayout(n, ok)
    \/ \E n \in LayoutNames, ok \in BOOLEAN : RequestLayoutByName(n, ok)
    \/ \E m \in ChatInputs, ok \in BOOLEAN : Content(m, ok)
    \/ \E id \in FeatureInputs, ok \in BOOLEAN : FeatureMessage(id, ok)
    \/ RequestFeaturedMessage
    \/ \E id \in MsgIds, ok \in BOOLEAN : RemoveMessage(id, ok)
    \/ \E h \in HourInputs, ok \in BOOLEAN : PaidMessagesSince(h, ok)
    \/ \E order \in Orders(DOMAIN chat_messages) : RecentMessages(order)
    \/ \E p \in Platforms, n \in ViewerCounts : ViewCount(p, n)
    \/ Tick
    \/ \E s \in Sessions, n \in LayoutNames, ok \in BOOLEAN : TextSubscribeLayout(s, n, ok)
    \/ \E s \in Sessions : SessionStop(s)
    \/ \E s \in Sessions : PingPong(s)
    \/ \E s \in Sessions, late \in Lateness : Heartbeat(s, late)
    \/ HubStep
    \/ \E s \in Sessions, f \in FrameInputs : TextFrame(s, f)
    \/ HubCommand
    \/ \E d \in DimensionValues : DimensionRoundTrip(d)
    \/ \E str \in DimensionStrings : DimensionParse(str)
    \/ \E m \in ChatInputs : ContentSent(m)
    \/ \E id \in FeatureInputs : FeatureMessageSent(id)
    \/ \E id \in MsgIds : RemoveMessageSent(id)
    \/ \E s \in Sessions : Reply(s)

Spec == Init /\ [][Next]_vars

\* an empty store and both layouts on disk
InitPlain ==
    InitWith({EmptyMap}, {[n \in LayoutNames |-> Layout(n, NoCss, NoCss)]})

\* the registry and who is handed which broadcast
NextRegistry ==
    \/ \E r \in Sessions : Connect(r)
    \/ \E id \in ConnIds : Disconnect(id)
    \/ \E id \in ConnIds, n \in LayoutNames : SubscribeLayout(id, n)
    \/ \E n \in LayoutNames : LayoutUpdate(Layout(n, NoCss, NoCss))
    \/ \E n \in LayoutNames : SwitchLayout(n, TRUE)
    \/ \E n \in LayoutNames : SaveLayout(Layout(n, NoCss, NoCss), TRUE)
    \/ \E x \in ChatSamples, ok \in BOOLEAN : Content(ChatInput(1, x), ok)

SpecRegistry == InitPlain /\ [][NextRegistry]_vars

\* the store empty or holding one row, 30 hours old: kept, and not cached
InitChat ==
    InitWith({f \in PriorStores : DOMAIN f \subseteq {1} /\ \A i \in DOMAIN f : f[i] = -30},
             {[n \in {"default"} |-> default_layout]})

\* what the featured message is fed with: an unpaid and a paid message
FeatureSamples == {x \in ChatSamples : x.currency = "EUR" \/ x.amount = 0}

NextFeature ==
    \/ \E r \in Sessions : Connect(r)
    \/ \E id \in MsgIds, x \in FeatureSamples, ok \in BOOLEAN : Content(ChatInput(id, x), ok)
    \/ \E id \in FeatureInputs, ok \in BOOLEAN : FeatureMessage(id, ok)
    \/ RequestFeaturedMessage
    \/ \E id \in MsgIds, ok \in BOOLEAN : RemoveMessage(id, ok)

SpecFeature == InitChat /\ [][NextFeature]_vars

\* the store over time
NextStore ==
    \/ \E m \in ChatInputs, ok \in BOOLEAN : Content(m, ok)
    \/ \E id \in MsgIds, ok \in BOOLEAN : RemoveMessage(id, ok)
    \/ \E h \in HourInputs, ok \in BOOLEAN : PaidMessagesSince(h, ok)
    \/ Tick

SpecStore == InitChat /\ [][NextStore]_vars

\* the sessions: opened, subscribing by text frame, closed
NextSession ==
    \/ \E r \in Sessions : Connect(r)
    \/ \E s \in Sessions, n \in LayoutNames, ok \in BOOLEAN : TextSubscribeLayout(s, n, ok)
    \/ \E n \in LayoutNames : SwitchLayout(n, TRUE)
    \/ \E s \in Sessions : SessionStop(s)
    \/ HubStep

SpecSession == InitPlain /\ [][NextSession]_vars

\* the cache and the recent messages: one message more than the cap,
\* received at three different times
RecentIds == 1..(MAX_MESSAGES + 1)

RecentInputs ==
    {Message(id, t, FALSE, <<>>, <<>>, <<"u">>, 0, "USD") : id \in RecentIds, t \in 0..2}

NextRecent ==
    \/ \E m \in RecentInputs : Content(m, TRUE)
    \/ \E id \in RecentIds : RemoveMessage(id, TRUE)
    \/ \E order \in Orders(DOMAIN chat_messages) : RecentMessages(order)

SpecRecent == InitPlain /\ [][NextRecent]_vars

\* the viewer counts and who is told
NextViewers ==
    \/ \E r \in Sessions : Connect(r)
    \/ \E id \in ConnIds : Disconnect(id)
    \/ \E p \in Platforms, n \in ViewerCounts : ViewCount(p, n)

SpecViewers == InitPlain /\ [][NextViewers]_vars

\* the heartbeat and the end of a session
NextHeartbeat ==
    \/ \E r \in Sessions : Connect(r)
    \/ \E s \in Sessions : PingPong(s)
    \/ \E s \in Sessions, late \in Lateness : Heartbeat(s, late)
    \/ \E s \in Sessions : SessionStop(s)
    \/ HubStep

SpecHeartbeat == InitPlain /\ [][NextHeartbeat]_vars

\* sessions come and go while the hub broadcasts events of every kind
NextLifecycle ==
    \/ \E r \in Sessions : Connect(r)
    \/ \E s \in Sessions : SessionStop(s)
    \/ HubStep
    \/ \E id \in ConnIds : Disconnect(id)
    \/ \E x \in FeatureSamples : Content(ChatInput(1, x), TRUE)
    \/ RemoveMessage(1, TRUE)
    \/ \E id \in {None, Some(1)} : FeatureMessage(id, TRUE)
    \/ \E n \in ViewerCounts : ViewCount("Twitch", n)
    \/ \E l \in {Layout("default", NoCss, NoCss)} : LayoutUpdate(l)

SpecLifecycle == InitPlain /\ [][NextLifecycle]_vars

\* the hub's events in the mailboxes of the sessions
NextDelivery ==
    \/ \E r \in Sessions : Connect(r)
    \/ \E s \in Sessions : SessionStop(s)
    \/ HubStep
    \/ \E m \in {ChatInput(1, CHOOSE x \in ChatSamples : x.amount = 0)} : ContentSent(m)
    \/ FeatureMessageSent(Some(1))
    \/ RemoveMessageSent(1)
    \/ \E s \in Sessions : Reply(s)

SpecDelivery == InitPlain /\ [][NextDelivery]_vars

\* position.x of a layout a client sends: 5 or inf, in pixels or viewport
\* widths, or a calc() expression
DimensionInputs ==
    {Dimension(u, v, <<>>) : u \in {"Px", "Vw"},
                             v \in {[fin |-> TRUE, n |-> 5], [fin |-> FALSE, n |-> 0]}}
        \cup {Dimension("Calc", [fin |-> TRUE, n |-> 0], <<"c", "a", "l", "c", "(", "1", ")">>)}

\* the layouts a client saves
LayoutSaveInputs ==
    LayoutInputs \cup {LayoutAt("alt", NoCss, NoCss, Some(d)) : d \in DimensionInputs}

\* the hub starts on the store of an earlier run and is queried
NextStartup ==
    \/ \E h \in HourInputs : PaidMessagesSince(h, TRUE)
    \/ RequestFeaturedMessage
    \/ Tick

SpecStartup == Init /\ [][NextStartup]_vars

\* messages with emojis are ingested
NextEmoji ==
    \/ \E r \in Sessions : Connect(r)
    \/ \E m \in EmojiInputs : Content(m, TRUE)

SpecEmoji == InitPlain /\ [][NextEmoji]_vars

\* the layout store: saved, read back, switched to, deleted
NextLayout ==
    \/ \E r \in Sessions : Connect(r)
    \/ \E n \in LayoutNames, ok \in BOOLEAN : SwitchLayout(n, ok)
    \/ \E l \in LayoutSaveInputs, ok \in BOOLEAN : SaveLayout(l, ok)
    \/ \E n \in LayoutNames, ok \in BOOLEAN : DeleteLayout(n, ok)
    \/ \E n \in LayoutNames : RequestLayoutByName(n, TRUE)

SpecLayout == InitPlain /\ [][NextLayout]_vars

\* a session receives text frames, one when the hub has handled the one
\* before, and the hub handles its commands
NextFrames ==
    \/ Connect(1)
    \/ \E f \in FrameInputs : mailbox = <<>> /\ TextFrame(1, f)
    \/ HubCommand
    \/ \E m \in {ChatInput(1, CHOOSE x \in ChatSamples : x.amount = 0)} : Content(m, TRUE)

SpecFrames == InitPlain /\ [][NextFrames]_vars

\* dimensions are converted while layouts with a position are saved
NextDimension ==
    \/ \E d \in DimensionValues : DimensionRoundTrip(d)
    \/ \E str \in DimensionStrings : DimensionParse(str)
    \/ \E d \in DimensionInputs, n \in LayoutNames :
          SaveLayout(LayoutAt(n, NoCss, NoCss, Some(d)), TRUE)

SpecDimension == InitPlain /\ [][NextDimension]_vars

\* sessions submit commands and end while the hub works through its
\* mailbox; the hub is scheduled fairly: a message at the head of its
\* mailbox is handled
NextBacklog ==
    \/ \E r \in Sessions : Connect(r)
    \/ \E s \in Sessions :
          TextFrame(s, <<<<"platform", JStr("Twitch")>>, <<"channel", JNull>>,
                         <<"viewers", JNum(1)>>>>)
    \/ \E s \in Sessions : SessionStop(s)
    \/ HubStep
    \/ HubCommand

SpecBacklog ==
    InitPlain /\ [][NextBacklog]_vars /\ WF_vars(HubStep) /\ WF_vars(HubCommand)

\* the layout commands with names that are paths to the same files
NextAlias ==
    \/ \E n \in LayoutNames \cup {"./default"}, ok \in BOOLEAN : SwitchLayout(n, ok)
    \/ \E n \in LayoutNames \cup {"./default"}, ok \in BOOLEAN :
          SaveLayout(Layout(n, NoCss, NoCss), ok)
    \/ \E n \in LayoutNames \cup {"./default"}, ok \in BOOLEAN : DeleteLayout(n, ok)
    \/ \E n \in LayoutNames \cup {"./default"} : LayoutUpdate(Layout(n, NoCss, NoCss))

SpecAlias == InitPlain /\ [][NextAlias]_vars

(***************************************************************************)
(* Properties.                                                             *)
(***************************************************************************)
\* the sessions the registry holds a send handle of
Registered == {s \in Sessions : \E k \in DOMAIN clients : clients[k].recipient = s}

ConnectStep == \E r \in Sessions : Connect(r)

\* C1: processing a Register leaves every connection registered before it
\* in the registry with its own send handle, and the registry grows by
\* exactly one entry.
C1_RegisterIsFresh ==
    [][ConnectStep =>
          /\ \A k \in DOMAIN clients :
                k \in DOMAIN clients' /\ clients'[k].recipient = clients[k].recipient
          /\ Cardinality(DOMAIN clients') = Cardinality(DOMAIN clients) + 1]_vars

\* C2: Ingest hands the chat_message to every registered connection,
\* whatever its subscribed_layout, and to no other session.
C2_IngestReachesAll ==
    out.op = "Content" =>
        /\ out.tag = "chat_message"
        /\ out.to = Registered

\* C2 witness: a chat message reached two connections, one of them subscribed
C2_Witness ==
    /\ out.op = "Content"
    /\ Cardinality(out.to) = 2
    /\ \E k \in DOMAIN clients :
          clients[k].subscribed_layout # None /\ clients[k].recipient \in out.to

\* the name of the layout a layout operation is about
LayoutOpName ==
    IF out.op = "SwitchLayout" THEN out.arg ELSE out.arg.name

LayoutOpSucceeded ==
    \/ out.op = "LayoutUpdate"
    \/ out.op \in {"SwitchLayout", "SaveLayout"} /\ out.ret = "Ok"

C4_SubscribeRecorded ==
    \A s \in Sessions :
        (/\ sess[s].st = "Active"
         /\ sess[s].done # None
         /\ Unwrap(sess[s].id) \in DOMAIN clients
         /\ clients[Unwrap(sess[s].id)].recipient = s)
        => clients[Unwrap(sess[s].id)].subscribed_layout = sess[s].done

\* C5: for a message ingested with amount > 0, the message cached,
\* broadcast and written to the store has currency "USD" and the converted
\* amount; no cached or stored message carries another currency.
C5_PaidIsUsd ==
    /\ (out.op = "Content" /\ out.arg.amount > 0) =>
          LET id == out.arg.id
              usd == get_usd(out.arg.currency, out.arg.amount)
          IN  /\ out.payload.currency = "USD" /\ out.payload.amount = usd
              /\ id \in DOMAIN chat_messages
              /\ chat_messages[id].currency = "USD"
              /\ chat_messages[id].amount = usd
              /\ (usd > 0 /\ out.store_ok) =>
                    /\ id \in DOMAIN database
                    /\ database[id].currency = "USD"
                    /\ database[id].amount = usd
    /\ \A k \in DOMAIN chat_messages : chat_messages[k].currency = "USD"
    /\ \A k \in DOMAIN database : database[k].currency = "USD"

\* C5 witness: 5.00 EUR was ingested; 5.40 USD was broadcast to a
\* connection, cached and stored
C5_Witness ==
    /\ out.op = "Content" /\ out.arg.currency = "EUR" /\ out.arg.amount = 500
    /\ out.to # {}
    /\ out.payload.amount = 540
    /\ chat_messages[out.arg.id].amount = 540
    /\ out.arg.id \in DOMAIN database /\ database[out.arg.id].amount = 540

\* C6 as stated: for a message ingested with amount == 0, the cached and
\* the broadcast message carry the currency of the incoming message.
C6_CurrencyUntouched ==
    (out.op = "Content" /\ out.arg.amount = 0) =>
        /\ out.payload.currency = out.arg.currency
        /\ chat_messages[out.arg.id].currency = out.arg.currency

\* C6: for a message ingested with amount == 0, the cached and the
\* broadcast message carry currency "USD" and amount 0, whatever the
\* currency of the incoming message.
C6_UnpaidIsUsd ==
    (out.op = "Content" /\ out.arg.amount = 0) =>
        /\ out.payload.currency = "USD" /\ out.payload.amount = 0
        /\ chat_messages[out.arg.id].currency = "USD"
        /\ chat_messages[out.arg.id].amount = 0

\* C6 witness: an unpaid message with currency "ZWL" was broadcast to a
\* connection and cached as "USD"
C6_Witness ==
    /\ out.op = "Content" /\ out.arg.amount = 0 /\ out.arg.currency = "ZWL"
    /\ out.to # {}
    /\ out.payload.currency = "USD"
    /\ chat_messages[out.arg.id].currency = "USD"

\* C7: Ingest of a message with amount == 0 leaves the contents of the
\* Persistent Store unchanged.
C7_UnpaidNotStored ==
    [][(out'.op = "Content" /\ out'.arg.amount = 0) => database' = database]_vars

\* C7 witness: an unpaid message was ingested and cached, and the store has
\* no row of it
C7_Witness ==
    /\ out.op = "Content" /\ out.arg.amount = 0 /\ out.store_ok
    /\ out.arg.id \in DOMAIN chat_messages
    /\ out.arg.id \notin DOMAIN database

\* C8 as stated: after Ingest of a message with amount > 0, whatever its
\* currency, the store not failing, the store holds a row with its id.
C8_PaidIsStored ==
    (out.op = "Content" /\ out.arg.amount > 0 /\ out.store_ok) =>
        out.arg.id \in DOMAIN database

\* a row of the store leaves it by Remove only
RowsLeaveByRemove ==
    \A id \in MsgIds :
        (id \in DOMAIN database /\ id \notin DOMAIN database') =>
            \E ok \in BOOLEAN : RemoveMessage(id, ok)

\* C8: after Ingest of a message whose amount converts to more than 0 USD,
\* the store not failing, the store holds a row with its id and receipt
\* time; a row stays until Remove; PaidMessagesSince(h) returns every row
\* received within the last h hours.
C8_ConvertedIsStored ==
    /\ [](/\ (/\ out.op = "Content" /\ out.store_ok
              /\ out.arg.amount > 0
              /\ get_usd(out.arg.currency, out.arg.amount) > 0) =>
                 /\ out.arg.id \in DOMAIN database
                 /\ database[out.arg.id].received_at = out.arg.received_at
          /\ (out.op = "PaidMessagesSince" /\ out.store_ok) =>
                 \A id \in DOMAIN database :
                    database[id].received_at >= now - out.arg =>
                        \E i \in DOMAIN out.ret :
                            MessageToRow(out.ret[i]) = database[id])
    /\ [][RowsLeaveByRemove]_vars

\* C8 witness: an hour after the hub was built, PaidMessagesSince(24)
\* returned the message ingested as 5.00 EUR
C8_Witness ==
    /\ out.op = "PaidMessagesSince" /\ out.arg = 24 /\ out.store_ok
    /\ now = 1
    /\ \E i \in DOMAIN out.ret : out.ret[i].amount = 540

\* C9: Remove(id) sets the featured message to none if it referenced id and
\* leaves it unchanged otherwise; RequestFeaturedMessage returns the
\* featured message, so none after the removal of the featured one.
C9_RemoveClearsFeatured ==
    [][/\ \A id \in MsgIds :
             (\E ok \in BOOLEAN : RemoveMessage(id, ok)) =>
                featured_message' =
                    IF featured_message # None /\ Unwrap(featured_message).id = id
                    THEN None ELSE featured_message
       /\ RequestFeaturedMessage =>
             /\ out'.ret = featured_message
             /\ (out.op = "RemoveMessage" /\ out.cleared) => out'.ret = None]_vars

\* C9 witness: the removal of the featured message was broadcast to two
\* connections and cleared it
C9_Witness ==
    /\ out.op = "RemoveMessage" /\ out.cleared
    /\ featured_message = None
    /\ Cardinality(out.to) = 2

C11_FeatureUnresolved ==
    (/\ out.op = "FeatureMessage"
     /\ \/ out.arg = None
        \/ /\ Unwrap(out.arg) \notin DOMAIN chat_messages
           /\ Unwrap(out.arg) \notin DOMAIN database) =>
        /\ featured_message = None
        /\ out.tag = "feature_message"
        /\ out.payload = None
        /\ out.to = Registered
        /\ out.ret = None

\* C11 witness: a Feature of an id that is neither cached nor stored cleared
\* the message featured before and was broadcast to two connections
C11_Witness ==
    /\ out.op = "FeatureMessage" /\ out.arg = Some(2) /\ out.replaced
    /\ 2 \notin DOMAIN chat_messages /\ 2 \notin DOMAIN database
    /\ featured_message = None
    /\ Cardinality(out.to) = 2

RecentIdsReturned == {out.ret[i].id : i \in DOMAIN out.ret}

\* C14: with more than MAX_MESSAGES messages cached, RecentMessages returns
\* exactly the MAX_MESSAGES messages received last: no cached message left
\* out is more recent than one returned.
C14_RecentAreMostRecent ==
    (out.op = "RecentMessages" /\ Cardinality(DOMAIN chat_messages) > MAX_MESSAGES) =>
        /\ Len(out.ret) = MAX_MESSAGES
        /\ \A k \in DOMAIN chat_messages \ RecentIdsReturned :
              \A i \in DOMAIN out.ret :
                 chat_messages[k].received_at <= out.ret[i].received_at

\* C15: RecentMessages returns at most MAX_MESSAGES messages, each one in
\* the cache, none twice, by receipt time ascending; all of them when the
\* cache holds fewer than MAX_MESSAGES.
C15_RecentIsSortedSlice ==
    out.op = "RecentMessages" =>
        /\ Len(out.ret) <= MAX_MESSAGES
        /\ \A i \in DOMAIN out.ret :
              /\ out.ret[i].id \in DOMAIN chat_messages
              /\ out.ret[i] = chat_messages[out.ret[i].id]
        /\ \A i, j \in DOMAIN out.ret :
              /\ i # j => out.ret[i].id # out.ret[j].id
              /\ i < j => out.ret[i].received_at <= out.ret[j].received_at
        /\ Cardinality(DOMAIN chat_messages) < MAX_MESSAGES =>
              RecentIdsReturned = DOMAIN chat_messages

\* C15 witness: the cache holds more than the cap, and the cap's worth of
\* messages came back, the earlier one first
C15_Witness ==
    /\ out.op = "RecentMessages"
    /\ Cardinality(DOMAIN chat_messages) > MAX_MESSAGES
    /\ Len(out.ret) = MAX_MESSAGES
    /\ out.ret[1].received_at < out.ret[MAX_MESSAGES].received_at


\* C16: UpdateViewerCount(platform, count) sends no broadcast when count is
\* the value stored for the platform before; otherwise, the first report
\* included, it hands every registered connection a viewers event carrying
\* the whole map.
C16_ViewersBroadcast ==
    out.op = "ViewCount" =>
        /\ viewer_counts[out.arg[1]] = out.arg[2]
        /\ IF out.old = Some(out.arg[2])
           THEN out.tag = "" /\ out.to = {}
           ELSE /\ out.tag = "viewers"
                /\ out.to = Registered
                /\ out.payload = viewer_counts

\* C16 witness: the first report of a platform went to two connections with
\* the count of the other platform in it
C16_Witness ==
    /\ out.op = "ViewCount" /\ out.old = None
    /\ out.tag = "viewers"
    /\ Cardinality(out.to) = 2
    /\ DOMAIN out.payload = Platforms


C18_DeregisterOnce ==
    \A s \in Sessions :
        sess[s].st = "Stopped" => sess[s].dis = <<Unwrap(sess[s].id)>>


\* the kinds of event the hub broadcasts
BroadcastTags ==
    {"chat_message", "remove_message", "feature_message", "viewers", "layout_update"}

\* C19: the hub's Disconnect takes the entry of its id out of the registry,
\* and a connection that has been opened and has no entry in the registry is
\* handed no broadcast of any kind from then on, nor is it registered again
C19_SilentAfterDeregister ==
    /\ [](out.op = "Disconnect" => out.arg \notin DOMAIN clients)
    /\ [][\A s \in Sessions :
             sess[s].st # "New" /\ s \notin Registered =>
                 /\ s \notin Registered'
                 /\ s \notin out'.to]_vars

\* the Disconnect of a stopped session has been processed, and an event was
\* broadcast to the session that is left
C19_Witness ==
    \E s, t \in Sessions :
        /\ sess[s].st = "Stopped" /\ sess[s].dis # <<>> /\ mailbox = <<>>
        /\ s \notin Registered
        /\ out.tag \in BroadcastTags
        /\ out.to = {t}


\* C20: every Disconnect a session submits carries the id the hub assigned to
\* it, and the hub's processing of it takes no other session's entry out of
\* the registry
C20_OnlyOwnEntry ==
    /\ [](\A s \in Sessions : \A i \in 1..Len(sess[s].dis) :
              sess[s].dis[i] = Unwrap(sess[s].id))
    /\ [][HubStep => \A s \in Registered \ Registered' : Head(mailbox).from = s]_vars


\* C21: a Disconnect of an id that is not in the registry leaves the registry,
\* the cache, the featured message and the viewer counts as they were, hands
\* nothing to anyone and returns nothing; after any Disconnect the id is not
\* in the registry, so that a second one is such a no-op
C21_DeregisterUnknown ==
    [][out'.op = "Disconnect" =>
          /\ out'.arg \notin DOMAIN clients'
          /\ ~out'.known =>
                /\ clients' = clients
                /\ chat_messages' = chat_messages
                /\ featured_message' = featured_message
                /\ viewer_counts' = viewer_counts
                /\ out'.to = {} /\ out'.tag = "" /\ out'.ret = None]_vars

\* a Disconnect of an unknown id was handled while the registry, the cache,
\* the featured message and the viewer counts all held something
C21_Witness ==
    /\ out.op = "Disconnect" /\ ~out.known
    /\ clients # <<>> /\ chat_messages # <<>>
    /\ featured_message # None /\ viewer_counts # <<>>


\* the Reply messages session s has been handed, oldest first
HandedTo(s) == sess[s].text \o sess[s].inbox

SameReply(a, b) == a.tag = b.tag /\ a.payload = b.payload

\* a is the end of b
IsSuffix(a, b) ==
    /\ Len(a) <= Len(b)
    /\ \A i \in 1..Len(a) : SameReply(a[i], b[Len(b) - Len(a) + i])

\* C22: two registered connections have been handed the same chat_message,
\* remove_message and feature_message payloads in the same order since the
\* later of them registered, and each writes them out oldest first
C22_SameOrder ==
    \A s, t \in Registered :
        sess[s].st = "Active" /\ sess[t].st = "Active" =>
            IsSuffix(HandedTo(s), HandedTo(t)) \/ IsSuffix(HandedTo(t), HandedTo(s))

\* two registered sessions were handed events of different kinds, one of them
\* since before the other registered, and one has written some of them out
C22_Witness ==
    \E s, t \in Registered :
        /\ s # t /\ sess[s].st = "Active" /\ sess[t].st = "Active"
        /\ Len(HandedTo(s)) = 2 /\ Len(HandedTo(t)) = 1
        /\ HandedTo(s)[1].tag # HandedTo(s)[2].tag
        /\ sess[s].text # <<>> /\ sess[t].inbox # <<>>


\* C23: a featured message always carries an id that is in the cache or in
\* the store, whatever the order of Content, FeatureMessage and RemoveMessage
\* events, and after a RemoveMessage the featured message is not the removed
\* one
C23_FeaturedIsKnown ==
    /\ featured_message # None =>
          Unwrap(featured_message).id \in DOMAIN chat_messages \cup DOMAIN database
    /\ out.op = "RemoveMessage" =>
          featured_message = None \/ Unwrap(featured_message).id # out.arg

\* a message found in the store only is featured and survived the removal
\* of a cached one
C23_Witness ==
    /\ featured_message # None
    /\ Unwrap(featured_message).id \notin DOMAIN chat_messages
    /\ out.op = "RemoveMessage" /\ out.cached


\* C24: a DeleteLayout of the active layout returns an error, leaves the
\* layout store, the active layout and the registry as they were and hands
\* nothing to anyone
C24_DeleteActiveRefused ==
    [][out'.op = "DeleteLayout" /\ out'.arg = active_layout =>
          /\ out'.ret = "Err"
          /\ layout_files' = layout_files
          /\ active_layout' = active_layout
          /\ clients' = clients
          /\ out'.to = {} /\ out'.tag = ""]_vars

\* the delete of the active layout was refused although its file is there
\* and could have been removed, with a connection registered
C24_Witness ==
    /\ out.op = "DeleteLayout" /\ out.arg = active_layout
    /\ out.ret = "Err" /\ out.store_ok
    /\ lm_exists(layout_files, active_layout)
    /\ clients # <<>>


\* equal in every field but the compiled CSS
SameButCompiled(a, b) ==
    a.name = b.name /\ a.custom_css = b.custom_css /\ a.x = b.x

\* the file of layout n is written or removed
FileChanges(n) ==
    (n \in DOMAIN layout_files) # (n \in DOMAIN layout_files')
        \/ (n \in DOMAIN layout_files /\ layout_files'[n] # layout_files[n])

\* C25: a successful SaveLayout leaves a file that RequestLayoutByName reads
\* back equal to the saved layout but for the compiled CSS, and the file of a
\* name changes only with a SaveLayout or DeleteLayout of that name
C25_SaveRoundTrip ==
    [][/\ out'.op = "SaveLayout" /\ out'.ret = "Ok" =>
             /\ lm_exists(layout_files', out'.arg.name)
             /\ SameButCompiled(layout_files'[out'.arg.name], out'.arg)
       /\ out'.op = "RequestLayoutByName" /\ lm_exists(layout_files, out'.arg) =>
             out'.ret = Some(layout_files[out'.arg])
       /\ \A n \in LayoutNames :
             FileChanges(n) =>
                 \/ out'.op = "SaveLayout" /\ out'.arg.name = n
                 \/ out'.op = "DeleteLayout" /\ out'.arg = n]_vars


\* the hub has just been created
JustCreated == out.op = "new" /\ now = 0

\* the cache holds the rows of the store received in the last 24 hours
CacheIsRecentStore ==
    /\ DOMAIN chat_messages =
          {k \in DOMAIN database : database[k].received_at >= now - CACHE_WINDOW_HOURS}
    /\ \A k \in DOMAIN chat_messages : chat_messages[k] = row_to_message(database[k])

\* the store holds no row older than 48 hours
StoreIsPurged ==
    \A k \in DOMAIN database : database[k].received_at >= now - RETENTION_HOURS

\* the rows the hub found that are at most 48 hours old are still stored,
\* and those older than 24 hours are not cached
OlderRowsStay ==
    \A k \in DOMAIN out.prior :
        out.prior[k].received_at >= now - RETENTION_HOURS =>
            /\ k \in DOMAIN database /\ database[k] = out.prior[k]
            /\ out.prior[k].received_at < now - CACHE_WINDOW_HOURS =>
                  k \notin DOMAIN chat_messages

\* C26 as stated: right after its creation the hub's cache holds exactly the
\* store's rows of the last 24 hours, the store holds nothing older than 48
\* hours, nothing is featured, and the rows between 24 and 48 hours old are
\* stored but not cached
C26_StartupExact ==
    JustCreated =>
        /\ CacheIsRecentStore
        /\ StoreIsPurged
        /\ featured_message = None
        /\ OlderRowsStay

\* C26: the same, where the cache is as stated when the store's query
\* succeeded and the store is purged when its cleanup succeeded
C26_StartupWhenStoreWorks ==
    JustCreated =>
        /\ out.load_ok => CacheIsRecentStore
        /\ out.cleanup_ok => StoreIsPurged
        /\ featured_message = None
        /\ OlderRowsStay

\* the hub found a row older than 48 hours and one 48 hours old: the first
\* was purged, the second is stored and not cached
C26_Witness ==
    /\ JustCreated /\ out.cleanup_ok /\ out.load_ok
    /\ \E i, j \in DOMAIN out.prior :
          /\ out.prior[i].received_at < now - RETENTION_HOURS
          /\ i \notin DOMAIN database
          /\ out.prior[j].received_at = now - RETENTION_HOURS
          /\ j \in DOMAIN database /\ j \notin DOMAIN chat_messages


\* C27: a Content whose upsert failed has cached its message and handed it to
\* every registered connection; a RemoveMessage whose delete failed has taken
\* the id out of the cache, cleared the featured message if it was that one
\* and handed remove_message to every registered connection
C27_StoreFailureTolerated ==
    /\ out.op = "Content" /\ ~out.store_ok =>
          /\ out.arg.id \in DOMAIN chat_messages
          /\ chat_messages[out.arg.id] = out.payload
          /\ out.tag = "chat_message" /\ out.to = AllRecipients
    /\ out.op = "RemoveMessage" /\ ~out.store_ok =>
          /\ out.arg \notin DOMAIN chat_messages
          /\ featured_message = None \/ Unwrap(featured_message).id # out.arg
          /\ out.tag = "remove_message" /\ out.payload = out.arg
          /\ out.to = AllRecipients

\* the delete of the featured, cached and stored message failed: the row is
\* still stored, the message is neither cached nor featured, and a
\* connection was told
C27_Witness ==
    /\ out.op = "RemoveMessage" /\ ~out.store_ok
    /\ out.cleared /\ out.cached /\ out.stored
    /\ out.arg \in DOMAIN database
    /\ out.to # {}


\* one element standing for the markup of emojis[i]
EmojiMark(i) == <<"#1", "#2">>[i]

\* every occurrence of each find pattern, in the order of the triples,
\* replaced by the mark of its emoji: a mark is one element and no part of
\* it can match a pattern
RECURSIVE Marked(_, _, _)
Marked(s, emojis, i) ==
    IF i > Len(emojis) THEN s
    ELSE Marked(ReplaceAll(s, emojis[i][1], <<EmojiMark(i)>>), emojis, i + 1)

\* every mark replaced by the markup of its emoji, once
RECURSIVE Rendered(_, _)
Rendered(s, emojis) ==
    IF s = <<>> THEN <<>>
    ELSE (IF \E i \in 1..Len(emojis) : Head(s) = EmojiMark(i)
          THEN LET i == CHOOSE i \in 1..Len(emojis) : Head(s) = EmojiMark(i)
               IN  EmojiMarkup(emojis[i][2], emojis[i][3])
          ELSE <<Head(s)>>) \o Rendered(Tail(s), emojis)

\* C28: the message a Content delivers is the escaped text in which every
\* occurrence of a find pattern is replaced by its emoji's markup, once, no
\* token and no markup being touched by another pattern or replacement
C28_SubstitutedOnce ==
    out.op = "Content" =>
        out.payload.message =
            Rendered(Marked(EscapeHtml(out.arg.message), out.arg.emojis, 1), out.arg.emojis)


\* the HTML entity of a metacharacter, any other character as it is
HtmlEntity(ch) ==
    CASE ch = "&" -> <<"&", "a", "m", "p", ";">>
      [] ch = "\"" -> <<"&", "q", "u", "o", "t", ";">>
      [] ch = "'" -> <<"&", "#", "0", "3", "9", ";">>
      [] ch = "<" -> <<"&", "l", "t", ";">>
      [] ch = ">" -> <<"&", "g", "t", ";">>
      [] OTHER -> <<ch>>

\* every character of s replaced by its entity, once
RECURSIVE EscapedOnce(_)
EscapedOnce(s) ==
    IF s = <<>> THEN <<>> ELSE HtmlEntity(Head(s)) \o EscapedOnce(Tail(s))

\* C29: for a message without emojis, the delivered text and username are
\* the input with each of & " ' < > replaced by its HTML entity, once, and
\* hold no raw < or >
C29_EscapedOnce ==
    out.op = "Content" /\ out.arg.emojis = <<>> =>
        /\ out.payload.message = EscapedOnce(out.arg.message)
        /\ out.payload.username = EscapedOnce(out.arg.username)
        /\ \A i \in DOMAIN out.payload.message : out.payload.message[i] \notin {"<", ">"}
        /\ \A i \in DOMAIN out.payload.username : out.payload.username[i] \notin {"<", ">"}


\* C30: the cache never holds more messages than a fixed bound, here the
\* only bound the hub knows, MAX_MESSAGES
C30_CacheBounded ==
    Cardinality(DOMAIN chat_messages) <= MAX_MESSAGES

\* a shape parses the frame and the frame has a member that shape knows
Matches(frame) ==
    \/ ParseLivestreamUpdate(frame).ok /\ Field(frame, "viewers") # None
    \/ ParseCommandFeatureMessage(frame).ok /\ Field(frame, "feature_message") # None
    \/ /\ ParseLayoutCommand(frame).ok
       /\ \E k \in {"switch_layout", "delete_layout", "subscribe_layout"} :
              Field(frame, k) # None

\* C31: a text frame that matches no command shape with a recognized field
\* is only logged: the session submits nothing to the hub and stays Active.
C31_UnrecognizedIsDropped ==
    \A s \in Sessions :
        sess[s].ev = "text" /\ ~Matches(sess[s].frame)
            => sess[s].sent = "none" /\ sess[s].st = "Active"

\* C34: a text frame without a feature_message member is never dispatched as
\* a feature or unfeature command, whatever its values read.
C34_FeatureNeedsMember ==
    \A s \in Sessions :
        sess[s].ev = "text" /\ Field(sess[s].frame, "feature_message") = None
            => sess[s].sent # "FeatureMessage"

\* C32: every Dimension is equal to what deserializing its serialization
\* gives and to what parsing its CSS text gives, and a bare number is read
\* as pixels, from a string and from a JSON number.
C32_DimensionRoundTrip ==
    /\ out.op = "Dimension"
           => out.ret.json = Some(out.arg) /\ out.ret.css = Some(out.arg)
    /\ out.op = "Dimension::parse" /\ out.arg = <<"5">>
           => out.ret.css = Some(Dimension("Px", [fin |-> TRUE, n |-> 5], <<>>))
    /\ DeserializeX([kind |-> "number", n |-> 5, str |-> <<>>])
           = Some(Dimension("Px", [fin |-> TRUE, n |-> 5], <<>>))

\* C33: a session that has left Active is eventually absent from the
\* registry, whatever the hub's mailbox held when it submitted its Disconnect.
C33_EventuallyDeregistered ==
    \A s \in Sessions : (sess[s].st = "Stopped") ~> (s \notin Registered)

\* C36: a Switch to a name whose layout file is missing or cannot be read
\* returns an error, leaves the active layout as it was and is broadcast to
\* no connection.
C36_SwitchFailureIsQuiet ==
    [][out'.op = "SwitchLayout"
          /\ ~(out'.store_ok /\ lm_exists(layout_files, out'.arg))
          => /\ out'.ret = "Err"
             /\ active_layout' = active_layout
             /\ layout_files' = layout_files
             /\ out'.to = {} /\ out'.tag = ""]_vars

\* a Switch to a deleted layout, other than the active one, has failed while
\* a connection was registered
C36_Witness ==
    /\ out.op = "SwitchLayout" /\ out.ret = "Err"
    /\ out.arg \notin DOMAIN layout_files
    /\ out.arg # active_layout
    /\ clients # EmptyMap

\* the text after an attribute value that ends at the next quote and is
\* followed by `piece` of the markup template; None if the value holds a raw
\* angle bracket or the template does not follow
AfterAttr(s, piece) ==
    LET quotes == {i \in 1..Len(s) : s[i] = "\""}
        q == CHOOSE i \in quotes : \A j \in quotes : i <= j
    IN  IF quotes = {} THEN None
        ELSE IF /\ \A i \in 1..(q - 1) : s[i] \notin {"<", ">"}
                /\ Len(s) >= q - 1 + Len(piece)
                /\ SubSeq(s, q, q - 1 + Len(piece)) = piece
        THEN Some(SubSeq(s, q + Len(piece), Len(s)))
        ELSE None

\* every raw <, > and " of s is part of an <img class="emoji" ..> element
\* built by the template
RECURSIVE OnlyTemplateMarkup(_)
OnlyTemplateMarkup(s) ==
    IF s = <<>> THEN TRUE
    ELSE IF Len(s) >= Len(ImgOpen) /\ SubSeq(s, 1, Len(ImgOpen)) = ImgOpen
    THEN LET src == AfterAttr(SubSeq(s, Len(ImgOpen) + 1, Len(s)), ImgDataEmoji)
         IN  /\ src # None
             /\ LET data == AfterAttr(Unwrap(src), ImgAlt)
                IN  /\ data # None
                    /\ LET alt == AfterAttr(Unwrap(data), ImgClose)
                       IN  alt # None /\ OnlyTemplateMarkup(Unwrap(alt))
    ELSE s[1] \notin {"<", ">", "\""} /\ OnlyTemplateMarkup(Tail(s))

\* C37: in the message text an Ingest delivers, every raw <, > and " belongs
\* to the <img class="emoji" ..> template: nothing of the message text or of
\* an emoji's find, url or name is there unescaped.
C37_OnlyTemplateMarkup ==
    out.op = "Content" => OnlyTemplateMarkup(out.payload.message)

\* C38: the active layout, whose file is there when the hub starts, names a
\* layout of the store after any Switch, Save, Update and Delete.
C38_ActiveLayoutExists ==
    lm_exists(layout_files, active_layout)

\* C39: when a message is featured and the cache holds a message with its
\* id, the two are the same message, also after the id was ingested again.
C39_FeaturedMatchesCache ==
    featured_message # None /\ Unwrap(featured_message).id \in DOMAIN chat_messages
        => chat_messages[Unwrap(featured_message).id] = Unwrap(featured_message)


\* C40: with a store that does not fail, a message that is both in the cache
\* and in the store is the same in both (in the columns the store keeps),
\* also after its id was ingested again with another amount or currency.
C40_CacheMatchesStore ==
    \A id \in DOMAIN chat_messages \cap DOMAIN database :
        MessageToRow(chat_messages[id]) = database[id]


\* C35: no Ingest ends the hub, and the comparison `len >= capacity - 1` of an
\* Ingest never subtracts from a capacity of 0: neither has an Ingest
\* panicked, nor has one completed with the difference wrapped around
C35_IngestNeverUnderflows ==
    /\ out.op # "panic"
    /\ out.op = "Content" => ~out.underflow

====
